---- MODULE Spec2Model ----
(***************************************************************************)
(* Fraud-detection pipeline of rift-money-muling (backend/main.py,         *)
(* backend/services/json_formatter.py, backend/ml/predictor.py).           *)
(*                                                                         *)
(* Conventions of the model                                                *)
(*   - accounts are natural numbers; their order is the order that         *)
(*     Python's sorted() gives the account-id strings;                     *)
(*   - a timestamp is a record [loc, off]: the wall-clock reading and the  *)
(*     UTC offset, both in minutes; the instant is loc - off;              *)
(*   - a ring's risk_score is held in hundredths (93 stands for 0.93);     *)
(*   - an ML probability is held in percent (50 stands for 0.5).           *)
(***************************************************************************)
EXTENDS Integers, Sequences, FiniteSets, TLC

VARIABLES
    txs,                 \* the uploaded, validated transaction list
    pc,                  \* position of the /analyze handler
    G,                   \* the transaction multi-graph
    outgoing_map,        \* account -> its outgoing adjacency list
    incoming_map,        \* account -> its incoming adjacency list
    cycle_rings,         \* output of cycle_detector
    smurfing_rings,      \* output of smurfing_detector
    layered_rings,       \* output of detect_layered_networks
    fraud_rings,         \* output of aggregate_fraud_rings
    suspicious_accounts, \* output of compute_suspicion_scores: the account list
    merchant_map,        \* output of compute_suspicion_scores: the merchant flags
    report,              \* the document returned by _run_pipeline
    saved,               \* content of output/latest_report.json
    ml,                  \* the predictor installed under models/ ("none" if absent)
    pieces,              \* number of blocks and rows appended to the upload so far
    runs,                \* number of /analyze requests answered so far
    prev                 \* the previous request: its transactions and its answer

vars == <<txs, pc, G, outgoing_map, incoming_map, cycle_rings, smurfing_rings,
          layered_rings, fraud_rings, suspicious_accounts, merchant_map, report,
          saved, ml, pieces, runs, prev>>

(***************************************************************************)
(* Bounds of the model.                                                    *)
(***************************************************************************)
MaxPieces == 2
MaxRuns == 2
MaxTotal == 201
MaxResubmitted == 8

(***************************************************************************)
(* Program constants.                                                      *)
(***************************************************************************)
MINUTES_PER_HOUR == 60
SMURFING_WINDOW == 72 * MINUTES_PER_HOUR
SMURFING_MIN_COUNTERPARTIES == 10
MERCHANT_TX_THRESHOLD == 100
LAYERED_MIN_PATH_LEN == 3
LAYERED_MAX_PATH_LEN == 5
LAYERED_INTERMEDIATE_MIN_DEGREE == 2
LAYERED_INTERMEDIATE_MAX_DEGREE == 3
CYCLE_MIN_LEN == 3
CYCLE_MAX_LEN == 5
VELOCITY_BONUS_HIGH == 20
VELOCITY_BONUS_LOW == 10
VELOCITY_RATE_HIGH == 10
VELOCITY_RATE_LOW == 5
MERCHANT_PENALTY == 0 - 50
SCORING_MERCHANT_TX_THRESHOLD == 200
HIGH_DEGREE_FACTOR == 3
ONE_HOUR == 1 * MINUTES_PER_HOUR
SCORE_MIN == 0
SCORE_MAX == 100
RISK_RAW_MAX == 100
RISK_MEMBER_CAP == 10
RISK_LEVEL_HIGH == 80
RISK_LEVEL_MEDIUM == 50

(***************************************************************************)
(* Sequences and orders.                                                   *)
(***************************************************************************)
Range(s) == {s[i] : i \in DOMAIN s}

Min(S) == CHOOSE x \in S : \A y \in S : x <= y

Max(S) == CHOOSE x \in S : \A y \in S : y <= x

Min2(a, b) == IF a <= b THEN a ELSE b

Max2(a, b) == IF a >= b THEN a ELSE b

\* sum of f[lo..hi], halving the range (the evaluator's stack is shallow)
RECURSIVE SumRange(_, _, _)
SumRange(f, lo, hi) ==
    IF lo > hi THEN 0
    ELSE IF lo = hi THEN f[lo]
    ELSE LET mid == (lo + hi) \div 2
         IN SumRange(f, lo, mid) + SumRange(f, mid + 1, hi)

SumSeq(f) == SumRange(f, 1, Len(f))

\* sorted(): the ascending sequence of a set of numbers
SortedSeq(S) ==
    IF S = {} THEN <<>>
    ELSE LET lo == Min(S)
             hi == Max(S)
         IN SelectSeq([i \in 1..(hi - lo + 1) |-> lo + i - 1], LAMBDA x : x \in S)

SumOver(f, S) ==
    LET keys == SortedSeq(S) IN SumSeq([i \in DOMAIN keys |-> f[keys[i]]])

\* Python's tuple comparison a < b
RECURSIVE LexLess(_, _)
LexLess(a, b) ==
    IF a = <<>> THEN b # <<>>
    ELSE IF b = <<>> THEN FALSE
    ELSE IF Head(a) # Head(b) THEN Head(a) < Head(b)
    ELSE LexLess(Tail(a), Tail(b))

LexLeq(a, b) == a = b \/ LexLess(a, b)

\* list.sort(key=...) / sorted(key=...): ascending in the key (a tuple of
\* numbers) and stable: among equal keys the earlier element stays first
StableSort(s, Key(_)) ==
    LET keyed == [i \in DOMAIN s |-> <<Key(s[i]), i, s[i]>>]
        sorted == SortSeq(keyed, LAMBDA a, b :
                      LexLess(a[1], b[1]) \/ (a[1] = b[1] /\ a[2] < b[2]))
    IN [i \in DOMAIN sorted |-> sorted[i][3]]

\* the first occurrences of the values of a sequence, in order
FirstSeen(s) ==
    LET indexed == [i \in DOMAIN s |-> <<i, s[i]>>]
        first == SelectSeq(indexed, LAMBDA p : \A j \in 1..(p[1] - 1) : s[j] # p[2])
    IN [k \in DOMAIN first |-> first[k][2]]

\* the index of a value in a sequence that holds it once
IndexOf(s, x) == CHOOSE i \in DOMAIN s : s[i] = x

RECURSIVE Flatten(_)
Flatten(ss) == IF ss = <<>> THEN <<>> ELSE Head(ss) \o Flatten(Tail(ss))

IsPermutationOf(a, b) ==
    /\ Len(a) = Len(b)
    /\ \A x \in Range(a) \cup Range(b) :
          Cardinality({i \in DOMAIN a : a[i] = x})
              = Cardinality({i \in DOMAIN b : b[i] = x})

(***************************************************************************)
(* Timestamps.  datetime.isoformat() writes the wall-clock reading and     *)
(* then the UTC offset ("2024-01-01T10:00:00+05:30"); the strings compare  *)
(* by the reading first and then by the offset text, in which '+' sorts    *)
(* before '-' and a larger magnitude sorts later.                          *)
(***************************************************************************)
Stamp(loc, off) == [loc |-> loc, off |-> off]

Instant(ts) == ts.loc - ts.off

IsoFormat(ts) ==
    <<ts.loc, IF ts.off >= 0 THEN 0 ELSE 1, IF ts.off >= 0 THEN ts.off ELSE 0 - ts.off>>

\* _parse_ts: datetime.fromisoformat of an isoformat() string
ParseTs(iso) == Stamp(iso[1], IF iso[2] = 0 THEN iso[3] ELSE 0 - iso[3])

(***************************************************************************)
(* Transactions and the multi-graph.  networkx keeps nodes in the order    *)
(* of their first insertion and, per node, the successors in the order of  *)
(* the first edge to each; G.edges() walks nodes, then successors, then    *)
(* the parallel edges of the pair in insertion order.                      *)
(***************************************************************************)
Tx(id, s, r, ts, amt) ==
    [transaction_id |-> id, sender_id |-> s, receiver_id |-> r,
     timestamp |-> ts, amount |-> amt]

EmptyGraph == [nodes |-> <<>>, edges |-> <<>>]

build_transaction_graph(transactions) ==
    [nodes |-> FirstSeen([k \in 1..(2 * Len(transactions)) |->
                   IF k % 2 = 1 THEN transactions[(k + 1) \div 2].sender_id
                   ELSE transactions[k \div 2].receiver_id]),
     edges |-> transactions]

NodeSet(g) == Range(g.nodes)

\* G.edges(): by the sender's place among the nodes, then by the place of the
\* first edge of the ordered pair, then in insertion order
GEdges(g) ==
    LET pair(e) == <<e.sender_id, e.receiver_id>>
        first_edge == [p \in {pair(e) : e \in Range(g.edges)} |->
                          Min({i \in DOMAIN g.edges : pair(g.edges[i]) = p})]
        place == [n \in Range(g.nodes) |-> IndexOf(g.nodes, n)]
        walk(e) == <<place[e.sender_id], first_edge[pair(e)]>>
    IN StableSort(g.edges, walk)

\* the simple projection: one edge per ordered pair, self-loops kept
to_simple_digraph(g) ==
    {<<e.sender_id, e.receiver_id>> : e \in Range(g.edges)}

Successors(simple, u) == {e[2] : e \in {d \in simple : d[1] = u}}

(***************************************************************************)
(* Adjacency maps.                                                         *)
(***************************************************************************)
OutEntry(e) ==
    [transaction_id |-> e.transaction_id, amount |-> e.amount,
     timestamp |-> IsoFormat(e.timestamp), receiver_id |-> e.receiver_id]

InEntry(e) ==
    [transaction_id |-> e.transaction_id, amount |-> e.amount,
     timestamp |-> IsoFormat(e.timestamp), sender_id |-> e.sender_id]

ByTimestamp(x) == x.timestamp

create_outgoing_map(g) ==
    LET es == GEdges(g)
    IN [u \in {e.sender_id : e \in Range(es)} |->
           LET mine == SelectSeq(es, LAMBDA e : e.sender_id = u)
           IN StableSort([i \in DOMAIN mine |-> OutEntry(mine[i])], ByTimestamp)]

create_incoming_map(g) ==
    LET es == GEdges(g)
    IN [v \in {e.receiver_id : e \in Range(es)} |->
           LET mine == SelectSeq(es, LAMBDA e : e.receiver_id = v)
           IN StableSort([i \in DOMAIN mine |-> InEntry(mine[i])], ByTimestamp)]

\* dict.get(account_id, [])
Get(map, a) == IF a \in DOMAIN map THEN map[a] ELSE <<>>

(***************************************************************************)
(* Rings.                                                                  *)
(***************************************************************************)
None == 0 - 1

\* the digits of f"{n:03}"
RECURSIVE Digits(_)
Digits(n) == IF n < 10 THEN <<n>> ELSE Digits(n \div 10) \o <<n % 10>>

Pad03(n) ==
    LET d == Digits(n)
    IN IF Len(d) >= 3 THEN d ELSE [i \in 1..(3 - Len(d)) |-> 0] \o d

RingId(prefix, n) == [prefix |-> prefix, digits |-> Pad03(n)]

SuspiciousRing(id, members, pattern, risk, amount, count) ==
    [ring_id |-> id, members |-> members, pattern |-> pattern,
     risk_score |-> risk, total_amount |-> amount, transaction_count |-> count]

(***************************************************************************)
(* Smurfing detector.                                                      *)
(***************************************************************************)
is_merchant(account_id, inc, out) ==
    Len(Get(inc, account_id)) + Len(Get(out, account_id)) > MERCHANT_TX_THRESHOLD

FreqAdd(freq, k) ==
    IF k \in DOMAIN freq THEN [freq EXCEPT ![k] = @ + 1] ELSE freq @@ (k :> 1)

FreqDrop(freq, k) ==
    IF freq[k] = 1 THEN [x \in DOMAIN freq \ {k} |-> freq[x]]
    ELSE [freq EXCEPT ![k] = @ - 1]

\* parsed[i] = <<datetime, counterparty>>
\* the inner while loop: shrink the window from the left while it exceeds 72 h
RECURSIVE ShrinkWindow(_, _, _, _)
ShrinkWindow(parsed, right, left, freq) ==
    IF Instant(parsed[right][1]) - Instant(parsed[left][1]) > SMURFING_WINDOW
    THEN ShrinkWindow(parsed, right, left + 1, FreqDrop(freq, parsed[left][2]))
    ELSE [left |-> left, freq |-> freq]

\* an iteration that also records a window whose count equals the best so far
SweepStepLastBest(parsed, right, st) ==
    LET added == FreqAdd(st.freq, parsed[right][2])
        shrunk == ShrinkWindow(parsed, right, st.left, added)
        unique == Cardinality(DOMAIN shrunk.freq)
    IN IF unique >= st.best_unique
       THEN [left |-> shrunk.left, freq |-> shrunk.freq, best_unique |-> unique,
             best_left |-> shrunk.left, best_right |-> right]
       ELSE [st EXCEPT !.left = shrunk.left, !.freq = shrunk.freq]

\* one iteration of "for right in range(len(parsed))"
SweepStep(parsed, right, st) ==
    LET added == FreqAdd(st.freq, parsed[right][2])
        shrunk == ShrinkWindow(parsed, right, st.left, added)
        unique == Cardinality(DOMAIN shrunk.freq)
    IN IF unique > st.best_unique
       THEN [left |-> shrunk.left, freq |-> shrunk.freq, best_unique |-> unique,
             best_left |-> shrunk.left, best_right |-> right]
       ELSE [st EXCEPT !.left = shrunk.left, !.freq = shrunk.freq]

\* iterations lo..hi of the for loop, from state st (halving the range keeps
\* the evaluation shallow; the iterations run in order)
RECURSIVE SweepRange(_, _, _, _)
SweepRange(parsed, lo, hi, st) ==
    IF lo > hi THEN st
    ELSE IF lo = hi THEN SweepStep(parsed, lo, st)
    ELSE LET mid == (lo + hi) \div 2
             half == SweepRange(parsed, lo, mid, st)
         IN IF half.left >= 1 THEN SweepRange(parsed, mid + 1, hi, half) ELSE half

SweepInit ==
    [left |-> 1, freq |-> <<>>, best_unique |-> 0, best_left |-> 1, best_right |-> 1]

SlidingWindow(parsed) == SweepRange(parsed, 1, Len(parsed), SweepInit)

WindowMembers(parsed, st, hub) ==
    SortedSeq({parsed[i][2] : i \in st.best_left..st.best_right} \cup {hub})

Parsed(txns, pattern) ==
    [i \in DOMAIN txns |->
        <<ParseTs(txns[i].timestamp),
          IF pattern = "smurfing_fan_in" THEN txns[i].sender_id
          ELSE txns[i].receiver_id>>]

\* the body of the loop over sorted(map.keys()): does this hub yield a ring?
FanFires(hub, map, inc, out, pattern) ==
    /\ ~is_merchant(hub, inc, out)
    /\ Len(map[hub]) >= SMURFING_MIN_COUNTERPARTIES
    /\ SlidingWindow(Parsed(map[hub], pattern)).best_unique
          >= SMURFING_MIN_COUNTERPARTIES

\* The loop of detect_fan_in (counterparty = sender_id) and of detect_fan_out
\* (counterparty = receiver_id).  seen_accounts is local to one call and holds
\* only hubs of earlier iterations; sorted(map.keys()) names each hub once, so
\* its test never skips a hub.
FanLoop(map, inc, out, pattern) ==
    LET hubs == SelectSeq(SortedSeq(DOMAIN map),
                          LAMBDA hub : FanFires(hub, map, inc, out, pattern))
    IN [i \in DOMAIN hubs |->
           LET parsed == Parsed(map[hubs[i]], pattern)
           IN [members |-> WindowMembers(parsed, SlidingWindow(parsed), hubs[i]),
               pattern |-> pattern]]

detect_fan_in(inc, out) ==
    FanLoop(inc, inc, out, "smurfing_fan_in")

detect_fan_out(out, inc) ==
    FanLoop(out, inc, out, "smurfing_fan_out")

smurfing_detector(inc, out) ==
    LET all_raw == detect_fan_in(inc, out) \o detect_fan_out(out, inc)
    IN [idx \in DOMAIN all_raw |->
           SuspiciousRing(RingId("RING_SM_", idx), all_raw[idx].members,
                          all_raw[idx].pattern, None, None, None)]

(***************************************************************************)
(* Cycle detector.  nx.simple_cycles yields every elementary cycle of the  *)
(* simple projection once (a self-loop as a cycle of length 1); the order  *)
(* in which it yields them is not part of its contract (it follows the     *)
(* iteration order of sets of account-id strings), so detect_cycles is the *)
(* set of the lists it may return.                                         *)
(***************************************************************************)
convert_to_simple_graph(g) == to_simple_digraph(g)

\* elementary cycles through `start` whose other nodes are all larger
RECURSIVE CyclesFrom(_, _, _)
CyclesFrom(simple, start, path) ==
    LET current == path[Len(path)]
        next == {n \in Successors(simple, current) :
                    n > start /\ n \notin Range(path)}
    IN (IF start \in Successors(simple, current) THEN {path} ELSE {})
       \cup UNION {CyclesFrom(simple, start, Append(path, n)) : n \in next}

simple_cycles(simple) ==
    UNION {CyclesFrom(simple, v, <<v>>) :
              v \in {e[1] : e \in simple} \cup {e[2] : e \in simple}}

\* the length filter with its lower end one too low
IsValidCycleLenLoose(n) == CYCLE_MIN_LEN - 1 <= n /\ n <= CYCLE_MAX_LEN

IsValidCycleLen(n) == CYCLE_MIN_LEN <= n /\ n <= CYCLE_MAX_LEN

filter_valid_cycles(cycles) ==
    SelectSeq(cycles, LAMBDA c : IsValidCycleLen(Len(c)))

\* all the orders in which the elements of a set can be listed
RECURSIVE Orderings(_)
Orderings(S) ==
    IF S = {} THEN {<<>>}
    ELSE UNION {{<<x>> \o rest : rest \in Orderings(S \ {x})} : x \in S}

\* the sequences of a set, one after the other in lexicographic order
RECURSIVE InLexOrder(_)
InLexOrder(S) ==
    IF S = {} THEN <<>>
    ELSE LET m == CHOOSE x \in S : \A y \in S : LexLeq(x, y)
         IN <<m>> \o InLexOrder(S \ {m})

\* The lists nx.simple_cycles may return.  The cycles that filter_valid_cycles
\* drops are listed last, in one order: wherever they stand, the list
\* that is left after the filter is the same.
detect_cycles(g) ==
    LET all == simple_cycles(convert_to_simple_graph(g))
        kept == {c \in all : IsValidCycleLen(Len(c))}
    IN {o \o InLexOrder(all \ kept) : o \in Orderings(kept)}

\* the parallel edges of G from u to v
EdgesBetween(g, u, v) ==
    SelectSeq(g.edges, LAMBDA e : e.sender_id = u /\ e.receiver_id = v)

SumAmounts(es) == SumSeq([i \in DOMAIN es |-> es[i].amount])

\* risk_score = min(total_amount / 100000 + transaction_count * 0.1, 10), in
\* hundredths; amounts are whole thousands, so the quotient is exact
calculate_ring_metrics(cycle, g) ==
    LET n == Len(cycle)
        step(i) == EdgesBetween(g, cycle[i], cycle[(i % n) + 1])
        total == SumSeq([i \in 1..n |-> SumAmounts(step(i))])
        count == SumSeq([i \in 1..n |-> Len(step(i))])
        risk == (total \div 1000) + count * 10
    IN [total_amount |-> total, transaction_count |-> count,
        risk_score |-> IF risk > 1000 THEN 1000 ELSE risk]

build_cycle_rings(valid_cycles, g) ==
    [i \in DOMAIN valid_cycles |->
        LET metrics == calculate_ring_metrics(valid_cycles[i], g)
        IN SuspiciousRing(RingId("RING_", i), SortedSeq(Range(valid_cycles[i])),
                          "cycle", metrics.risk_score, metrics.total_amount,
                          metrics.transaction_count)]

\* the lists cycle_detector may return
cycle_detector(g) ==
    {build_cycle_rings(filter_valid_cycles(cycles), g) : cycles \in detect_cycles(g)}

(***************************************************************************)
(* Layered (shell chain) detector.                                         *)
(***************************************************************************)
\* the outgoing transactions alone
total_degree_out_only(account_id, inc, out) == Len(Get(out, account_id))

total_degree(account_id, inc, out) ==
    Len(Get(inc, account_id)) + Len(Get(out, account_id))

\* the degree band with its lower end left out
valid_intermediate_open(node, inc, out) ==
    /\ LAYERED_INTERMEDIATE_MIN_DEGREE < total_degree(node, inc, out)
    /\ total_degree(node, inc, out) <= LAYERED_INTERMEDIATE_MAX_DEGREE
    /\ ~is_merchant(node, inc, out)

valid_intermediate(node, inc, out) ==
    /\ LAYERED_INTERMEDIATE_MIN_DEGREE <= total_degree(node, inc, out)
    /\ total_degree(node, inc, out) <= LAYERED_INTERMEDIATE_MAX_DEGREE
    /\ ~is_merchant(node, inc, out)

\* One stack entry (current = last node of path) of the bounded DFS: the member
\* set it records, and those recorded by the entries it pushes.  The rings are
\* deduplicated by member set and sorted afterwards, so the order in which the
\* stack is popped does not show in the result.
RECURSIVE LayeredVisit(_, _, _, _)
LayeredVisit(simple, path, inc, out) ==
    LET current == path[Len(path)]
        edge_count == Len(path) - 1
        intermediates_ok ==
            \A i \in 2..(Len(path) - 1) : valid_intermediate(path[i], inc, out)
        recorded ==
            IF /\ LAYERED_MIN_PATH_LEN <= edge_count
               /\ edge_count <= LAYERED_MAX_PATH_LEN
               /\ intermediates_ok
            THEN {Range(path)} ELSE {}
        next_edge_count == edge_count + 1
        is_end_candidate == next_edge_count >= LAYERED_MIN_PATH_LEN
        is_extendable == next_edge_count < LAYERED_MAX_PATH_LEN
        pushed == {n \in Successors(simple, current) :
                      /\ n \notin Range(path)
                      /\ (is_extendable /\ ~is_end_candidate)
                            => valid_intermediate(n, inc, out)}
    IN IF edge_count >= LAYERED_MAX_PATH_LEN THEN recorded
       ELSE recorded \cup
            UNION {LayeredVisit(simple, Append(path, n), inc, out) : n \in pushed}

\* raw_rings.sort(key=lambda r: tuple(sorted(r["members"]))) over distinct sets
RECURSIVE SortMemberSets(_)
SortMemberSets(S) ==
    IF S = {} THEN <<>>
    ELSE LET m == CHOOSE x \in S :
                     \A y \in S : LexLeq(SortedSeq(x), SortedSeq(y))
         IN <<SortedSeq(m)>> \o SortMemberSets(S \ {m})

detect_layered_networks(g, inc, out) ==
    LET simple == to_simple_digraph(g)
        seen_member_sets ==
            UNION {LayeredVisit(simple, <<start>>, inc, out) : start \in NodeSet(g)}
        raw_rings == SortMemberSets(seen_member_sets)
    IN [idx \in DOMAIN raw_rings |->
           SuspiciousRing(RingId("RING_LY_", idx), raw_rings[idx], "layered",
                          None, None, None)]

(***************************************************************************)
(* Ring aggregator.                                                        *)
(***************************************************************************)
RISK_BASE_SCORES(pattern) ==
    CASE pattern = "cycle" -> 90
      [] pattern = "smurfing_fan_in" -> 85
      [] pattern = "smurfing_fan_out" -> 85
      [] pattern = "layered" -> 80
      [] OTHER -> 80

combine_all_rings(cycle, smurfing, layered) == cycle \o smurfing \o layered

calculate_aggregated_risk_score(pattern, member_count) ==
    Min2(RISK_RAW_MAX, RISK_BASE_SCORES(pattern) + Min2(RISK_MEMBER_CAP, member_count))

\* the formula applied only where a detector left no provisional score
assign_risk_scores_if_missing(rings) ==
    [i \in DOMAIN rings |->
        IF rings[i].risk_score # None THEN rings[i]
        ELSE [rings[i] EXCEPT !.risk_score =
                 calculate_aggregated_risk_score(rings[i].pattern,
                                                 Len(rings[i].members))]]

assign_risk_scores(rings) ==
    [i \in DOMAIN rings |->
        [rings[i] EXCEPT !.risk_score =
            calculate_aggregated_risk_score(rings[i].pattern, Len(rings[i].members))]]

\* key=lambda r: r.risk_score or 0, reverse=True (reverse keeps the sort stable)
ByRiskDesc(x) == <<0 - x.risk_score>>

\* descending by risk, with every tie turned round
sort_rings_ties_reversed(rings) ==
    StableSort([i \in DOMAIN rings |-> rings[Len(rings) + 1 - i]], ByRiskDesc)

sort_rings_by_risk(rings) == StableSort(rings, ByRiskDesc)

\* the detectors' own identifiers left in place
assign_ring_ids_kept(rings) == rings

assign_ring_ids(rings) ==
    [idx \in DOMAIN rings |-> [rings[idx] EXCEPT !.ring_id = RingId("RING_", idx)]]

aggregate_fraud_rings(cycle, smurfing, layered) ==
    assign_ring_ids(sort_rings_by_risk(assign_risk_scores(
        combine_all_rings(cycle, smurfing, layered))))

(***************************************************************************)
(* Account scorer.                                                         *)
(***************************************************************************)
PATTERN_SCORES(pattern) ==
    CASE pattern = "cycle" -> 40
      [] pattern = "smurfing_fan_in" -> 30
      [] pattern = "smurfing_fan_out" -> 30
      [] pattern = "layered" -> 25
      [] OTHER -> 0

\* the members of the first ring alone
RingMembersOfFirst(rings) == IF rings = <<>> THEN {} ELSE Range(rings[1].members)

RingMembers(rings) == UNION {Range(rings[i].members) : i \in DOMAIN rings}

ByRingId(id) == id.digits

\* a map that records only the first ring of every account
build_account_ring_map_first_only(rings) ==
    [acc \in RingMembers(rings) |->
        LET mine == SelectSeq(rings, LAMBDA r : acc \in Range(r.members))
        IN <<mine[1].ring_id>>]

build_account_ring_map(rings) ==
    [acc \in RingMembers(rings) |->
        LET mine == SelectSeq(rings, LAMBDA r : acc \in Range(r.members))
        IN StableSort([i \in DOMAIN mine |-> mine[i].ring_id], ByRingId)]

\* the base of the account's last ring alone, instead of the sum
apply_ring_scores_last_only(rings) ==
    [acc \in RingMembers(rings) |->
        LET mine == SelectSeq(rings, LAMBDA r : acc \in Range(r.members))
        IN PATTERN_SCORES(mine[Len(mine)].pattern)]

apply_ring_scores(rings) ==
    [acc \in RingMembers(rings) |->
        SumSeq([i \in DOMAIN rings |->
                   IF acc \in Range(rings[i].members)
                   THEN PATTERN_SCORES(rings[i].pattern) ELSE 0])]

\* the inner while loop of the 1-hour window
RECURSIVE HourShrink(_, _, _)
HourShrink(timestamps, right, left) ==
    IF timestamps[right] - timestamps[left] > ONE_HOUR
    THEN HourShrink(timestamps, right, left + 1)
    ELSE left

\* one iteration of "for right in range(len(timestamps))"
HourStep(timestamps, right, st) ==
    LET l == HourShrink(timestamps, right, st.left)
        window_size == right - l + 1
    IN [left |-> l, max_tx_per_hour |-> Max2(st.max_tx_per_hour, window_size)]

\* iterations lo..hi of the for loop, from state st
RECURSIVE HourRange(_, _, _, _)
HourRange(timestamps, lo, hi, st) ==
    IF lo > hi THEN st
    ELSE IF lo = hi THEN HourStep(timestamps, lo, st)
    ELSE LET mid == (lo + hi) \div 2
             half == HourRange(timestamps, lo, mid, st)
         IN IF half.left >= 1 THEN HourRange(timestamps, mid + 1, hi, half) ELSE half

HourSweep(timestamps) ==
    HourRange(timestamps, 1, Len(timestamps),
              [left |-> 1, max_tx_per_hour |-> 0]).max_tx_per_hour

ByInstant(t) == <<t>>

\* sender and receiver activity of every edge (a self-loop counts twice); the
\* list is sorted before use, so the order of collection does not show
NodeTimestamps(es, node) ==
    LET mine == SelectSeq(es, LAMBDA e : e.sender_id = node)
                \o SelectSeq(es, LAMBDA e : e.receiver_id = node)
    IN [i \in DOMAIN mine |-> Instant(mine[i].timestamp)]

\* the absolute rule alone, without the high-degree rule
is_merchant_node_absolute(total_tx, total_nodes, sum) ==
    total_tx > SCORING_MERCHANT_TX_THRESHOLD

\* the absolute rule with the threshold itself counted in
is_merchant_node_inclusive(total_tx, total_nodes, sum) ==
    \/ total_tx >= SCORING_MERCHANT_TX_THRESHOLD
    \/ total_tx * total_nodes > HIGH_DEGREE_FACTOR * sum

\* total_tx > (sum / total_nodes) * 3 on floats gives, for the counts of the
\* model, the same answer as total_tx * total_nodes > 3 * sum on integers
is_merchant_node(total_tx, total_nodes, sum) ==
    \/ total_tx > SCORING_MERCHANT_TX_THRESHOLD
    \/ total_tx * total_nodes > HIGH_DEGREE_FACTOR * sum

compute_transaction_metrics(g) ==
    LET es == GEdges(g)
        stamps == [node \in NodeSet(g) |-> NodeTimestamps(es, node)]
        node_tx_count == [node \in NodeSet(g) |-> Len(stamps[node])]
        total_nodes == Cardinality(NodeSet(g))
        sum == SumOver(node_tx_count, NodeSet(g))
    IN [node \in NodeSet(g) |->
           LET total_tx == node_tx_count[node]
               timestamps == StableSort(stamps[node], ByInstant)
           IN [total_transactions |-> total_tx,
               max_tx_per_hour |-> HourSweep(timestamps),
               is_merchant |-> is_merchant_node(total_tx, total_nodes, sum)]]

\* both steps of the bonus added, instead of the higher one alone
VelocityBonusStacked(rate) ==
    (IF rate > VELOCITY_RATE_HIGH THEN VELOCITY_BONUS_HIGH ELSE 0)
    + (IF rate > VELOCITY_RATE_LOW THEN VELOCITY_BONUS_LOW ELSE 0)

VelocityBonus(rate) ==
    IF rate > VELOCITY_RATE_HIGH THEN VELOCITY_BONUS_HIGH
    ELSE IF rate > VELOCITY_RATE_LOW THEN VELOCITY_BONUS_LOW
    ELSE 0

apply_velocity_bonus(scores, metrics) ==
    [acc \in DOMAIN scores |->
        IF acc \in DOMAIN metrics
        THEN scores[acc] + VelocityBonus(metrics[acc].max_tx_per_hour)
        ELSE scores[acc]]

\* metrics.get(account, {}).get("is_merchant", False)
IsMerchantOf(metrics, acc) == acc \in DOMAIN metrics /\ metrics[acc].is_merchant

\* the penalty taken from a score that was clamped first
apply_merchant_penalty_after_clamp(scores, metrics) ==
    [acc \in DOMAIN scores |->
        IF IsMerchantOf(metrics, acc)
        THEN Max2(SCORE_MIN, Min2(SCORE_MAX, scores[acc])) + MERCHANT_PENALTY
        ELSE scores[acc]]

apply_merchant_penalty(scores, metrics) ==
    [acc \in DOMAIN scores |->
        IF IsMerchantOf(metrics, acc) THEN scores[acc] + MERCHANT_PENALTY
        ELSE scores[acc]]

\* the clamp without its upper end
ClampBelowOnly(x) == Max2(SCORE_MIN, x)

Clamp(x) == Max2(SCORE_MIN, Min2(SCORE_MAX, x))

\* the key with the account_id turned round: ties by account_id descending
ByScoreThenIdDescending(a) == <<0 - a.suspicion_score, 0 - a.account_id>>

\* key=lambda a: (-a.suspicion_score, a.account_id)
ByScoreThenId(a) == <<0 - a.suspicion_score, a.account_id>>

build_final_account_list(scores, account_to_rings, metrics) ==
    LET ids == SortedSeq(DOMAIN account_to_rings)
        result ==
            [i \in DOMAIN ids |->
                [account_id |-> ids[i],
                 suspicion_score |->
                     Clamp(IF ids[i] \in DOMAIN scores THEN scores[ids[i]] ELSE 0),
                 involved_rings |-> StableSort(account_to_rings[ids[i]], ByRingId),
                 is_merchant |-> IsMerchantOf(metrics, ids[i])]]
    IN StableSort(result, ByScoreThenId)

compute_suspicion_scores(g, rings) ==
    LET account_to_rings == build_account_ring_map(rings)
        metrics == compute_transaction_metrics(g)
        scores == apply_merchant_penalty(
                      apply_velocity_bonus(apply_ring_scores(rings), metrics), metrics)
        merchant_map_all == [node \in NodeSet(g) |-> IsMerchantOf(metrics, node)]
    IN <<build_final_account_list(scores, account_to_rings, metrics), merchant_map_all>>

(***************************************************************************)
(* Feature extraction and ML blending.  The predictor is an opaque         *)
(* function of the feature rows; Predictors names the ones of the model.   *)
(***************************************************************************)
Predictors == {"clean", "by_ring_size"}

extract_pipeline_features(g, rings) ==
    LET metrics == compute_transaction_metrics(g)
        es == GEdges(g)
        of(node, pats) ==
            SelectSeq(rings, LAMBDA r : node \in Range(r.members) /\ r.pattern \in pats)
        sizes(rs) == {Len(rs[i].members) : i \in DOMAIN rs}
        all == {"cycle", "smurfing_fan_in", "smurfing_fan_out", "layered"}
    IN [node \in NodeSet(g) |->
           LET sent == SelectSeq(es, LAMBDA e : e.sender_id = node)
               got == SelectSeq(es, LAMBDA e : e.receiver_id = node)
           IN [account_id |-> node,
               total_transactions |-> metrics[node].total_transactions,
               total_amount_sent |-> SumAmounts(sent),
               avg_transaction_amount |->
                   IF Len(sent) > 0 THEN SumAmounts(sent) \div Len(sent) ELSE 0,
               unique_receivers |-> Cardinality({e.receiver_id : e \in Range(sent)}),
               unique_senders |-> Cardinality({e.sender_id : e \in Range(got)}),
               max_transactions_per_hour |-> metrics[node].max_tx_per_hour,
               smurfing_flag |->
                   IF of(node, {"smurfing_fan_in", "smurfing_fan_out"}) # <<>>
                   THEN 1 ELSE 0,
               layering_depth |->
                   IF of(node, {"layered"}) = <<>> THEN 0
                   ELSE Max(sizes(of(node, {"layered"}))) - 1,
               cycle_count |-> Len(of(node, {"cycle"})),
               ring_size |->
                   IF of(node, all) = <<>> THEN 0 ELSE Max(sizes(of(node, all))),
               merchant_flag |-> IF metrics[node].is_merchant THEN 1 ELSE 0]]

\* probability of fraud, in percent, that predictor m gives a feature row
Probability(m, row) ==
    CASE m = "clean" -> 0
      [] m = "fraud" -> 100
      [] OTHER -> Min2(100, 10 * row.ring_size)

predict_fraud_probabilities(m, account_features) ==
    [acct \in DOMAIN account_features |-> Probability(m, account_features[acct])]

\* round() of a number given in tenths: to the nearest integer, ties to even
RoundTenths(x) ==
    LET q == x \div 10
        r == x % 10
    IN IF r < 5 THEN q
       ELSE IF r > 5 THEN q + 1
       ELSE IF q % 2 = 0 THEN q ELSE q + 1

\* final_score = 0.6 * rule + 0.4 * (probability * 100), clamped; in tenths
compute_final_scores(rule_scores, ml_probabilities) ==
    [acct \in DOMAIN rule_scores \cup DOMAIN ml_probabilities |->
        LET rule == IF acct \in DOMAIN rule_scores THEN rule_scores[acct] ELSE 0
            ml_prob == IF acct \in DOMAIN ml_probabilities
                       THEN ml_probabilities[acct] ELSE 0
            raw == 6 * rule + 4 * ml_prob
        IN [rule_score |-> rule, ml_probability |-> ml_prob,
            final_score |-> Max2(0, Min2(10 * SCORE_MAX, raw))]]

(***************************************************************************)
(* Report assembler.                                                       *)
(***************************************************************************)
\* the labels with both thresholds exclusive
risk_level_exclusive(score) ==
    IF score > RISK_LEVEL_HIGH THEN "HIGH"
    ELSE IF score > RISK_LEVEL_MEDIUM THEN "MEDIUM"
    ELSE "LOW"

risk_level(score) ==
    IF score >= RISK_LEVEL_HIGH THEN "HIGH"
    ELSE IF score >= RISK_LEVEL_MEDIUM THEN "MEDIUM"
    ELSE "LOW"

\* the number n, held in hundredths like every risk_score of the model
Hundredths(n) == 100 * n

\* the risk handed on as it is stored
RiskAsStored(risk_score) == risk_score

\* int(round(risk_score * 100)): the integer 93 for a ring of risk 0.93
RiskAsInt(risk_score) == Hundredths(risk_score)

\* round(x, 4): to the nearest ten-thousandth, on a number held in hundredths
Round4(x) == (x * 100 + 0) \div 100

rings_as_dicts(rings) ==
    [i \in DOMAIN rings |->
        [ring_id |-> rings[i].ring_id, pattern |-> rings[i].pattern,
         members |-> rings[i].members,
         risk_score |-> RiskAsInt(rings[i].risk_score)]]

format_fraud_rings(ring_dicts) ==
    StableSort([i \in DOMAIN ring_dicts |->
                   [ring_dicts[i] EXCEPT !.risk_score = Round4(ring_dicts[i].risk_score)]],
               ByRiskDesc)

\* entries that carry rule_score and ml_probability whether or not there are probabilities
format_suspicious_accounts_with_detail(account_scores, account_ring_map, ml_probabilities, rule_scores) ==
    LET ids == SortedSeq(DOMAIN account_scores)
        entry(a) ==
            [account_id |-> a,
             suspicion_score |-> Clamp(account_scores[a]),
             risk_level |-> risk_level(Clamp(account_scores[a])),
             associated_ring |-> IF a \in DOMAIN account_ring_map
                                 THEN account_ring_map[a] ELSE None,
             rule_score |-> IF a \in DOMAIN rule_scores THEN rule_scores[a] ELSE 0,
             ml_probability |-> IF a \in DOMAIN ml_probabilities
                                THEN ml_probabilities[a] ELSE 0]
    IN StableSort([i \in DOMAIN ids |-> entry(ids[i])], ByScoreThenId)

format_suspicious_accounts(account_scores, account_ring_map, ml_probabilities, rule_scores) ==
    LET ids == SortedSeq(DOMAIN account_scores)
        base(a) ==
            [account_id |-> a,
             suspicion_score |-> Clamp(account_scores[a]),
             risk_level |-> risk_level(Clamp(account_scores[a])),
             associated_ring |-> IF a \in DOMAIN account_ring_map
                                 THEN account_ring_map[a] ELSE None]
        detail(a) ==
            [rule_score |-> IF a \in DOMAIN rule_scores THEN rule_scores[a] ELSE 0,
             ml_probability |-> IF a \in DOMAIN ml_probabilities
                                THEN ml_probabilities[a] ELSE 0]
        entry(a) ==
            IF DOMAIN ml_probabilities # {} THEN base(a) @@ detail(a) ELSE base(a)
    IN StableSort([i \in DOMAIN ids |-> entry(ids[i])], ByScoreThenId)

build_final_json(transactions, ring_dicts, account_scores, account_ring_map, processing_time, ml_probabilities, rule_scores) ==
    LET formatted_rings == format_fraud_rings(ring_dicts)
        formatted_accounts ==
            format_suspicious_accounts(account_scores, account_ring_map,
                                       ml_probabilities, rule_scores)
        all_accounts == {transactions[i].sender_id : i \in DOMAIN transactions}
                        \cup {transactions[i].receiver_id : i \in DOMAIN transactions}
    IN [summary |->
            [total_accounts |-> Cardinality(all_accounts),
             total_transactions |-> Len(transactions),
             fraud_rings_detected |-> Len(formatted_rings),
             suspicious_accounts_count |-> Len(formatted_accounts),
             ml_model_active |-> DOMAIN ml_probabilities # {},
             processing_time_seconds |-> processing_time],
        fraud_rings |-> formatted_rings,
        suspicious_accounts |-> formatted_accounts]

\* steps 4, 4b and 5 of _run_pipeline; m is "none" when is_available() is false
run_pipeline_report(transactions, g, rings, accounts, m, processing_time) ==
    LET rule_scores ==
            [a \in {accounts[i].account_id : i \in DOMAIN accounts} |->
                (CHOOSE x \in Range(accounts) : x.account_id = a).suspicion_score]
        ring_member_ids == RingMembers(rings)
        all_probabilities ==
            IF m = "none" THEN <<>>
            ELSE predict_fraud_probabilities(m, extract_pipeline_features(g, rings))
        final_scores_detail == compute_final_scores(rule_scores, all_probabilities)
        account_scores ==
            IF m = "none" THEN rule_scores
            ELSE [acct \in DOMAIN final_scores_detail \cap ring_member_ids |->
                     RoundTenths(final_scores_detail[acct].final_score)]
        ml_probabilities ==
            [acct \in DOMAIN all_probabilities \cap ring_member_ids |->
                all_probabilities[acct]]
        acct_ring_membership == build_account_ring_map(rings)
        account_ring_map ==
            [acc \in DOMAIN acct_ring_membership |->
                IF acct_ring_membership[acc] # <<>>
                THEN acct_ring_membership[acc][1] ELSE None]
    IN build_final_json(transactions, rings_as_dicts(rings), account_scores,
                        account_ring_map, processing_time, ml_probabilities,
                        rule_scores)

(***************************************************************************)
(* Uploads.  A batch is built from at most MaxPieces pieces: blocks of     *)
(* rows of a known shape, each laid over the accounts already present      *)
(* (shift 0) or beside them, and single rows between the first accounts.   *)
(***************************************************************************)
AMOUNT == 1000

Shape(kind, n, gap) == [kind |-> kind, n |-> n, gap |-> gap]

\* gap: minutes between two rows of the block
Shapes ==
    {Shape("cycle", n, 1) : n \in 1..6}
    \cup {Shape("rev_cycle", 3, 1)}
    \cup {Shape("chain", n, 60) : n \in 2..6}
    \cup {Shape("fan_in", 9, 1), Shape("fan_in", 10, 480), Shape("fan_in", 10, 481),
          Shape("fan_in", 12, 120), Shape("fan_in", 10, 12), Shape("fan_in", 10, 15),
          Shape("fan_in", 12, 432)}
    \cup {Shape("skewed_fan_in", 10, 1)}
    \cup {Shape("fan_out", 9, 1), Shape("fan_out", 9, 480), Shape("fan_out", 10, 480),
          Shape("fan_out", 12, 432)}
    \cup {Shape("parallel", 11, 1), Shape("parallel", 200, 120),
          Shape("parallel", 201, 120)}

\* the shapes of a block that is laid over or beside earlier rows
Overlays ==
    {Shape("cycle", 3, 1), Shape("rev_cycle", 3, 1), Shape("chain", 3, 60),
     Shape("fan_out", 10, 480), Shape("parallel", 11, 1)}

\* sender and receiver of row i of a block, before the shift
ShapeEnds(shape, i) ==
    CASE shape.kind = "cycle" -> <<i, (i % shape.n) + 1>>
      [] shape.kind = "rev_cycle" -> <<(i % shape.n) + 1, i>>
      [] shape.kind = "chain" -> <<i, i + 1>>
      [] shape.kind = "fan_in" -> <<i + 1, 1>>
      [] shape.kind = "skewed_fan_in" -> <<i + 1, 1>>
      [] shape.kind = "fan_out" -> <<1, i + 1>>
      [] OTHER -> <<1, 2>>

\* The timestamp of row i of a block.  The rows of a skewed fan-in come from
\* two time zones: the first reads 00:00 at UTC-10:00 (the instant 10:00 UTC),
\* the second 00:01 UTC, the others a little more than 73 hours later.
ShapeStamp(shape, i) ==
    CASE shape.kind = "skewed_fan_in" /\ i = 1 -> Stamp(0, 0 - 10 * MINUTES_PER_HOUR)
      [] shape.kind = "skewed_fan_in" /\ i = 2 -> Stamp(1, 0)
      [] shape.kind = "skewed_fan_in" /\ i > 2 -> Stamp(73 * MINUTES_PER_HOUR + i, 0)
      [] OTHER -> Stamp((i - 1) * shape.gap, 0)

BlockRows(shape, shift, first_id) ==
    [i \in 1..shape.n |->
        Tx(first_id + i, ShapeEnds(shape, i)[1] + shift, ShapeEnds(shape, i)[2] + shift,
           ShapeStamp(shape, i), AMOUNT)]

Accounts(transactions) ==
    {transactions[i].sender_id : i \in DOMAIN transactions}
    \cup {transactions[i].receiver_id : i \in DOMAIN transactions}

ExtraAccounts == {1, 3}

ExtraStamps == {Stamp(0, 0), Stamp(30, 0 - 300)}

Reverse(s) == [i \in DOMAIN s |-> s[Len(s) + 1 - i]]

Rotate(s) == IF s = <<>> THEN s ELSE Tail(s) \o <<Head(s)>>

Reorder(kind, s) ==
    CASE kind = "reversed" -> Reverse(s)
      [] kind = "rotated" -> Rotate(s)
      [] OTHER -> s

\* perf_counter readings differ from run to run
ElapsedTimes == {1, 2}

(***************************************************************************)
(* The service.                                                            *)
(***************************************************************************)
Init ==
    /\ txs = <<>>
    /\ pc = "upload"
    /\ G = EmptyGraph
    /\ outgoing_map = <<>>
    /\ incoming_map = <<>>
    /\ cycle_rings = <<>>
    /\ smurfing_rings = <<>>
    /\ layered_rings = <<>>
    /\ fraud_rings = <<>>
    /\ suspicious_accounts = <<>>
    /\ merchant_map = <<>>
    /\ report = <<>>
    /\ saved = <<>>
    /\ ml = "none"
    /\ pieces = 0
    /\ runs = 0
    /\ prev = <<>>

results == <<G, outgoing_map, incoming_map, cycle_rings, smurfing_rings,
             layered_rings, fraud_rings, suspicious_accounts, merchant_map, report,
             saved, ml>>

\* the client appends a block of rows to the CSV it is preparing
AddBlock ==
    /\ pc \in {"upload", "rejected"}
    /\ runs = 0
    /\ pieces < MaxPieces
    /\ \E shape \in (IF txs = <<>> THEN Shapes ELSE Overlays) :
       \E shift \in {0} \cup {Max(Accounts(txs) \cup {0})} :
          /\ Len(txs) + shape.n <= MaxTotal
          /\ txs' = txs \o BlockRows(shape, shift, Len(txs))
    /\ pieces' = pieces + 1
    /\ pc' = "upload"
    /\ UNCHANGED <<results, runs, prev>>

\* the client appends one row
AddRow ==
    /\ pc \in {"upload", "rejected"}
    /\ runs = 0
    /\ pieces < MaxPieces
    /\ Len(txs) < MaxTotal
    /\ \E s \in ExtraAccounts, r \in ExtraAccounts, ts \in ExtraStamps :
          txs' = Append(txs, Tx(Len(txs) + 1, s, r, ts, AMOUNT))
    /\ pieces' = pieces + 1
    /\ pc' = "upload"
    /\ UNCHANGED <<results, runs, prev>>

\* an entry point that runs the pipeline on the empty list and saves its report
AnalyzeEmptyThroughPipeline ==
    /\ pc = "upload"
    /\ runs < MaxRuns
    /\ txs = <<>>
    /\ G' = build_transaction_graph(txs)
    /\ report' = <<run_pipeline_report(txs, G', <<>>, <<>>, "none", 1)>>
    /\ saved' = report'
    /\ pc' = "rejected"
    /\ UNCHANGED <<txs, outgoing_map, incoming_map, cycle_rings, smurfing_rings,
                   layered_rings, fraud_rings, suspicious_accounts, merchant_map, ml,
                   pieces, runs, prev>>

\* POST /analyze with no valid transaction: HTTP 400 before the pipeline
AnalyzeEmpty ==
    /\ pc = "upload"
    /\ runs < MaxRuns
    /\ txs = <<>>
    /\ pc' = "rejected"
    /\ UNCHANGED <<txs, results, pieces, runs, prev>>

\* POST /analyze, _run_pipeline step 1: graph and adjacency maps
Analyze ==
    /\ pc = "upload"
    /\ runs < MaxRuns
    /\ txs # <<>>
    /\ G' = build_transaction_graph(txs)
    /\ outgoing_map' = create_outgoing_map(G')
    /\ incoming_map' = create_incoming_map(G')
    /\ cycle_rings' = <<>>
    /\ smurfing_rings' = <<>>
    /\ layered_rings' = <<>>
    /\ fraud_rings' = <<>>
    /\ suspicious_accounts' = <<>>
    /\ merchant_map' = <<>>
    /\ report' = <<>>
    /\ pc' = "cycles"
    /\ UNCHANGED <<txs, saved, ml, pieces, runs, prev>>

RunCycleDetector ==
    /\ pc = "cycles"
    /\ \E rings \in cycle_detector(G) : cycle_rings' = rings
    /\ pc' = "smurfing"
    /\ UNCHANGED <<txs, G, outgoing_map, incoming_map, smurfing_rings, layered_rings,
                   fraud_rings, suspicious_accounts, merchant_map, report, saved, ml,
                   pieces, runs, prev>>

RunSmurfingDetector ==
    /\ pc = "smurfing"
    /\ smurfing_rings' = smurfing_detector(incoming_map, outgoing_map)
    /\ pc' = "layered"
    /\ UNCHANGED <<txs, G, outgoing_map, incoming_map, cycle_rings, layered_rings,
                   fraud_rings, suspicious_accounts, merchant_map, report, saved, ml,
                   pieces, runs, prev>>

RunLayeredDetector ==
    /\ pc = "layered"
    /\ layered_rings' = detect_layered_networks(G, incoming_map, outgoing_map)
    /\ pc' = "aggregate"
    /\ UNCHANGED <<txs, G, outgoing_map, incoming_map, cycle_rings, smurfing_rings,
                   fraud_rings, suspicious_accounts, merchant_map, report, saved, ml,
                   pieces, runs, prev>>

\* an aggregator that writes the scores into the rings it was handed
AggregateInPlace ==
    /\ pc = "aggregate"
    /\ fraud_rings' = aggregate_fraud_rings(cycle_rings, smurfing_rings, layered_rings)
    /\ cycle_rings' = assign_risk_scores(cycle_rings)
    /\ smurfing_rings' = assign_risk_scores(smurfing_rings)
    /\ layered_rings' = assign_risk_scores(layered_rings)
    /\ pc' = "score"
    /\ UNCHANGED <<txs, G, outgoing_map, incoming_map, suspicious_accounts,
                   merchant_map, report, saved, ml, pieces, runs, prev>>

Aggregate ==
    /\ pc = "aggregate"
    /\ fraud_rings' = aggregate_fraud_rings(cycle_rings, smurfing_rings, layered_rings)
    /\ pc' = "score"
    /\ UNCHANGED <<txs, G, outgoing_map, incoming_map, cycle_rings, smurfing_rings,
                   layered_rings, suspicious_accounts, merchant_map, report, saved, ml,
                   pieces, runs, prev>>

Score ==
    /\ pc = "score"
    /\ LET scored == compute_suspicion_scores(G, fraud_rings)
       IN /\ suspicious_accounts' = scored[1]
          /\ merchant_map' = scored[2]
    /\ pc' = "report"
    /\ UNCHANGED <<txs, G, outgoing_map, incoming_map, cycle_rings, smurfing_rings,
                   layered_rings, fraud_rings, report, saved, ml, pieces, runs, prev>>

\* ml_is_available() loads the artefacts on first use and keeps them loaded;
\* the report is built and written to output/latest_report.json
Report ==
    /\ pc = "report"
    /\ \E m \in (IF ml = "none" THEN Predictors \cup {"none"} ELSE {ml}) :
       \E elapsed \in ElapsedTimes :
          /\ ml' = m
          /\ report' = <<run_pipeline_report(txs, G, fraud_rings, suspicious_accounts,
                                             m, elapsed)>>
    /\ saved' = report'
    /\ runs' = runs + 1
    /\ pc' = "done"
    /\ UNCHANGED <<txs, G, outgoing_map, incoming_map, cycle_rings, smurfing_rings,
                   layered_rings, fraud_rings, suspicious_accounts, merchant_map,
                   pieces, prev>>

\* the client posts the same rows again, as they were or in another order
Resubmit ==
    /\ pc = "done"
    /\ runs < MaxRuns
    /\ Len(txs) <= MaxResubmitted
    /\ \E kind \in {"same", "reversed", "rotated"} : txs' = Reorder(kind, txs)
    /\ prev' = <<[txs |-> txs, ml |-> ml, cycle_rings |-> cycle_rings,
                  report |-> report[1]]>>
    /\ pc' = "upload"
    /\ UNCHANGED <<results, pieces, runs>>

\* after a report, the client posts a CSV without a valid row
SubmitEmpty ==
    /\ pc = "done"
    /\ runs < MaxRuns
    /\ Len(txs) <= MaxResubmitted
    /\ txs' = <<>>
    /\ pc' = "upload"
    /\ UNCHANGED <<results, pieces, runs, prev>>

Next ==
    \/ AddBlock
    \/ AddRow
    \/ AnalyzeEmpty
    \/ Analyze
    \/ RunCycleDetector
    \/ RunSmurfingDetector
    \/ RunLayeredDetector
    \/ Aggregate
    \/ Score
    \/ Report
    \/ Resubmit
    \/ SubmitEmpty

Spec == Init /\ [][Next]_vars

(***************************************************************************)
(* Properties.  Scored: compute_suspicion_scores has returned; Answered:   *)
(* the report has been built and saved.                                    *)
(***************************************************************************)
Scored == pc \in {"report", "done"}

Answered == pc = "done"

Detected == pc \in {"smurfing", "layered", "aggregate", "score", "report", "done"}

Swept == pc \in {"layered", "aggregate", "score", "report", "done"}

\* the rows of the upload in which account a sends, plus those in which it receives
TotalTransactions(a) ==
    Cardinality({i \in DOMAIN txs : txs[i].sender_id = a})
    + Cardinality({i \in DOMAIN txs : txs[i].receiver_id = a})

EmittedIds(list) == {list[i].account_id : i \in DOMAIN list}

AccountOf(list, a) == CHOOSE x \in Range(list) : x.account_id = a

\* the score of every ring member before the clamp
RawScores ==
    LET metrics == compute_transaction_metrics(G)
    IN apply_merchant_penalty(
           apply_velocity_bonus(apply_ring_scores(fraud_rings), metrics), metrics)

(***************************************************************************)
(* C1.  The fan-in scenario: twelve distinct senders, one row each to the  *)
(* same receiver H, all within 24 hours, and nothing else.                 *)
(***************************************************************************)
FanInScenario ==
    /\ Len(txs) = 12
    /\ \E h \in Accounts(txs) :
          \A i \in DOMAIN txs : txs[i].receiver_id = h /\ txs[i].sender_id # h
    /\ \A i, j \in DOMAIN txs : i # j => txs[i].sender_id # txs[j].sender_id
    /\ \A i, j \in DOMAIN txs :
          Instant(txs[i].timestamp) - Instant(txs[j].timestamp) <= 24 * MINUTES_PER_HOUR

FanInHub == CHOOSE h \in Accounts(txs) : \A i \in DOMAIN txs : txs[i].receiver_id = h

IsChainPath(p) ==
    {<<txs[i].sender_id, txs[i].receiver_id>> : i \in DOMAIN txs}
        = {<<p[k], p[k + 1]>> : k \in 1..4}

ChainScenario ==
    /\ Len(txs) = 4
    /\ Cardinality(Accounts(txs)) = 5
    /\ \E p \in [1..5 -> Accounts(txs)] : IsChainPath(p)

ChainPath == CHOOSE p \in [1..5 -> Accounts(txs)] : IsChainPath(p)

\* C2, as the code has it: in the layered scenario the pipeline emits three
\* layered rings: first the five accounts with risk 0.85, then the two
\* four-account sub-chains A..D and B..E with risk 0.84 each; the rule score
\* of A and of E is 50 (two rings), that of B, C and D is 75 (three rings).
C2_ChainYieldsThreeRings ==
    (Scored /\ ChainScenario) =>
        /\ Len(fraud_rings) = 3
        /\ \A i \in 1..3 : fraud_rings[i].pattern = "layered"
        /\ fraud_rings[1].members = SortedSeq(Accounts(txs))
        /\ fraud_rings[1].risk_score = 85
        /\ {Range(fraud_rings[2].members), Range(fraud_rings[3].members)}
              = {{ChainPath[k] : k \in 1..4}, {ChainPath[k] : k \in 2..5}}
        /\ fraud_rings[2].risk_score = 84
        /\ fraud_rings[3].risk_score = 84
        /\ EmittedIds(suspicious_accounts) = Accounts(txs)
        /\ \A i \in DOMAIN suspicious_accounts :
              LET a == suspicious_accounts[i]
              IN a.suspicion_score
                    = (IF a.account_id \in {ChainPath[1], ChainPath[5]} THEN 50 ELSE 75)

\* C2, as stated: in the layered scenario the pipeline emits exactly one
\* layered ring, the five accounts with risk 0.85, and each of the five
\* accounts has rule score 25.
C2_AsStated ==
    (Scored /\ ChainScenario) =>
        /\ Len(fraud_rings) = 1
        /\ fraud_rings[1].pattern = "layered"
        /\ fraud_rings[1].members = SortedSeq(Accounts(txs))
        /\ fraud_rings[1].risk_score = 85
        /\ EmittedIds(suspicious_accounts) = Accounts(txs)
        /\ \A i \in DOMAIN suspicious_accounts :
              suspicious_accounts[i].suspicion_score = 25

\* the layered scenario has been scored
C2_Witness ==
    /\ Answered
    /\ ChainScenario
    /\ Len(layered_rings) = 3
    /\ Len(suspicious_accounts) = 5

(***************************************************************************)
(* C3.  Hubs of smurfing rings.                                            *)
(***************************************************************************)
\* ring r is what hub h yields in the loop over map (incoming_map for
\* fan-in, outgoing_map for fan-out)
IsRingOfHub(r, h, map, pattern) ==
    /\ r.pattern = pattern
    /\ h \in DOMAIN map
    /\ FanFires(h, map, incoming_map, outgoing_map, pattern)
    /\ LET parsed == Parsed(map[h], pattern)
       IN r.members = WindowMembers(parsed, SlidingWindow(parsed), h)

HubOfBoth(h) ==
    \E i, j \in DOMAIN smurfing_rings :
        /\ IsRingOfHub(smurfing_rings[i], h, incoming_map, "smurfing_fan_in")
        /\ IsRingOfHub(smurfing_rings[j], h, outgoing_map, "smurfing_fan_out")

\* C3, as stated: no account is the hub of an emitted smurfing_fan_in ring
\* and also the hub of an emitted smurfing_fan_out ring of the same run.
C3_AsStated ==
    Swept => \A h \in Accounts(txs) : ~HubOfBoth(h)

(***************************************************************************)
(* C4.  The risk_score of the rings of the report.                         *)
(***************************************************************************)
RingOfId(rings, id) == CHOOSE r \in Range(rings) : r.ring_id = id

C5_ScoresAreClamped ==
    /\ Scored =>
          \A i \in DOMAIN suspicious_accounts :
             LET a == suspicious_accounts[i]
                 raw == RawScores[a.account_id]
             IN /\ a.suspicion_score \in 0..100
                /\ raw < 0 => a.suspicion_score = 0
                /\ raw > 100 => a.suspicion_score = 100
                /\ (0 <= raw /\ raw <= 100) => a.suspicion_score = raw
    /\ Answered =>
          \A i \in DOMAIN report[1].suspicious_accounts :
             report[1].suspicious_accounts[i].suspicion_score \in 0..100

\* a report blended with ML over accounts with raw scores on both sides
C5_Witness ==
    /\ Answered
    /\ ml # "none"
    /\ \E a \in DOMAIN RawScores : RawScores[a] < 0
    /\ \E a \in DOMAIN RawScores : RawScores[a] > 100

(***************************************************************************)
(* C6.  The sizes of cycle rings and of layered rings.                     *)
(***************************************************************************)
\* c lists distinct accounts, a row leads from each to the next, and a row
\* leads from the last back to the first
IsElementaryCycle(c) ==
    /\ Len(c) >= 1
    /\ \A j, k \in DOMAIN c : j # k => c[j] # c[k]
    /\ \A k \in DOMAIN c :
          \E i \in DOMAIN txs :
              /\ txs[i].sender_id = c[k]
              /\ txs[i].receiver_id = c[(k % Len(c)) + 1]

ElementaryCycles == simple_cycles(to_simple_digraph(G))

RingsOver(rings, pattern, S) ==
    {i \in DOMAIN rings : rings[i].pattern = pattern /\ Range(rings[i].members) = S}

\* C6: every cycle ring has 3 to 5 distinct members, which are the accounts
\* of an elementary cycle of that length; the elementary cycles of length 3,
\* 4 and 5 yield one ring each, and those of length 1, 2, 6 or more yield
\* none; every layered ring has 4 to 6 distinct members.  This holds of the
\* detectors' lists and of the aggregated list.
C6_RingSizes ==
    /\ Detected =>
          /\ \A c \in ElementaryCycles : IsElementaryCycle(c)
          /\ \A i \in DOMAIN cycle_rings :
                LET r == cycle_rings[i]
                IN /\ r.pattern = "cycle"
                   /\ Len(r.members) \in 3..5
                   /\ Cardinality(Range(r.members)) = Len(r.members)
                   /\ \E c \in ElementaryCycles :
                         Len(c) = Len(r.members) /\ Range(c) = Range(r.members)
          /\ \A c \in ElementaryCycles :
                Len(c) \in 3..5 =>
                    Cardinality(RingsOver(cycle_rings, "cycle", Range(c)))
                        = Cardinality({d \in ElementaryCycles :
                                          Len(d) \in 3..5 /\ Range(d) = Range(c)})
          /\ Len(cycle_rings) = Cardinality({c \in ElementaryCycles : Len(c) \in 3..5})
    /\ \A i \in DOMAIN layered_rings :
          /\ layered_rings[i].pattern = "layered"
          /\ Len(layered_rings[i].members) \in 4..6
          /\ Cardinality(Range(layered_rings[i].members)) = Len(layered_rings[i].members)
    /\ \A i \in DOMAIN fraud_rings :
          LET r == fraud_rings[i]
          IN /\ r.pattern = "cycle" =>
                   Cardinality(Range(r.members)) \in 3..5
             /\ r.pattern = "layered" =>
                   Cardinality(Range(r.members)) \in 4..6

\* a run with a cycle ring, a layered ring, and an elementary cycle too short
\* or too long to yield a ring
C6_Witness ==
    /\ Answered
    /\ cycle_rings # <<>>
    /\ layered_rings # <<>>
    /\ \E c \in ElementaryCycles : Len(c) \notin 3..5

(***************************************************************************)
(* C7.  The size of smurfing rings.                                        *)
(***************************************************************************)
\* C7, as stated: every smurfing_fan_in or smurfing_fan_out ring has at
\* least 11 distinct members.
C7_AsStated ==
    Swept =>
        \A i \in DOMAIN smurfing_rings :
            Cardinality(Range(smurfing_rings[i].members)) >= 11

(***************************************************************************)
(* C8.  The same rows in another order.                                    *)
(***************************************************************************)
\* C8, as stated: a second request that carries the rows of the first in
\* another order, answered with the same predictor, reports the same
\* fraud_rings in the same order and the same suspicious_accounts.
C8_AsStated ==
    (Answered /\ prev # <<>> /\ prev[1].ml = ml /\ IsPermutationOf(prev[1].txs, txs)) =>
        /\ report[1].fraud_rings = prev[1].report.fraud_rings
        /\ report[1].suspicious_accounts = prev[1].report.suspicious_accounts

(***************************************************************************)
(* C9.  The order of the cycle rings.                                      *)
(***************************************************************************)
\* C9, as stated: the rings cycle_detector returns are in ascending order of
\* their sorted member tuples.
C9_AsStated ==
    Detected =>
        \A i, j \in DOMAIN cycle_rings :
            i < j => LexLeq(cycle_rings[i].members, cycle_rings[j].members)

(***************************************************************************)
(* C10.  The scorer's merchant flag at 200 and 201 transactions.           *)
(***************************************************************************)
\* the score of a ring member before the merchant penalty and the clamp
UnpenalisedScores ==
    apply_velocity_bonus(apply_ring_scores(fraud_rings), compute_transaction_metrics(G))

ClampedTo100(x) == IF x < 0 THEN 0 ELSE IF x > 100 THEN 100 ELSE x

\* three times the mean of total transactions, compared without division:
\* every row counts once for its sender and once for its receiver
ExceedsThriceMean(a) ==
    TotalTransactions(a) * Cardinality(Accounts(txs)) > 3 * (2 * Len(txs))

Aggregated == pc \in {"score", "report", "done"}

RECURSIVE DigitsValue(_)
DigitsValue(d) ==
    IF d = <<>> THEN 0 ELSE 10 * DigitsValue(SubSeq(d, 1, Len(d) - 1)) + d[Len(d)]

RECURSIVE NumDigits(_)
NumDigits(n) == IF n < 10 THEN 1 ELSE 1 + NumDigits(n \div 10)

\* id reads RING_ followed by the decimal digits of i, zero-padded to three
\* digits and no further
IsSequentialId(id, i) ==
    /\ id.prefix = "RING_"
    /\ Len(id.digits) = (IF NumDigits(i) > 3 THEN NumDigits(i) ELSE 3)
    /\ \A k \in DOMAIN id.digits : id.digits[k] \in 0..9
    /\ DigitsValue(id.digits) = i

\* C11: the i-th ring of the aggregator's list, and the i-th ring of the
\* report's fraud_rings, has the id RING_ followed by i zero-padded to at
\* least three digits (so there are no gaps and no duplicates); the format
\* widens beyond 999.
C11_RingIdsAreSequential ==
    /\ Aggregated =>
          \A i \in DOMAIN fraud_rings : IsSequentialId(fraud_rings[i].ring_id, i)
    /\ Answered =>
          /\ Len(report[1].fraud_rings) = Len(fraud_rings)
          /\ \A i \in DOMAIN report[1].fraud_rings :
                IsSequentialId(report[1].fraud_rings[i].ring_id, i)
    /\ \A n \in {1, 9, 10, 99, 100, 999, 1000, 1001, 12345} :
          IsSequentialId(RingId("RING_", n), n)

\* a report with rings of two detectors, whose own ids were RING_001 and
\* RING_SM_001
C11_Witness ==
    /\ Answered
    /\ cycle_rings # <<>>
    /\ smurfing_rings # <<>>
    /\ Len(report[1].fraud_rings) >= 3

(***************************************************************************)
(* C12.  The order of the final rings.                                     *)
(***************************************************************************)
\* a ring without its identifier and its risk
Body(r) == <<r.pattern, r.members, r.total_amount, r.transaction_count>>

Bodies(rings) == [i \in DOMAIN rings |-> Body(rings[i])]

Concatenation == cycle_rings \o smurfing_rings \o layered_rings

\* the risk the final list gives the rings of this body
RiskOfBody(b) ==
    (CHOOSE r \in Range(fraud_rings) : Body(r) = b).risk_score

\* C12: the final list holds the rings of cycle_rings ++ smurfing_rings ++
\* layered_rings in descending order of risk_score, and the rings of one
\* risk_score stand in the order they have in that concatenation.
C12_StableByRisk ==
    Aggregated =>
        /\ IsPermutationOf(Bodies(fraud_rings), Bodies(Concatenation))
        /\ \A i, j \in DOMAIN fraud_rings :
              i < j => fraud_rings[i].risk_score >= fraud_rings[j].risk_score
        /\ \A v \in {fraud_rings[i].risk_score : i \in DOMAIN fraud_rings} :
              Bodies(SelectSeq(fraud_rings, LAMBDA r : r.risk_score = v))
                  = SelectSeq(Bodies(Concatenation), LAMBDA b : RiskOfBody(b) = v)

\* a cycle of five members at 0.95 right before a smurfing ring at 0.95, with
\* a ring of lower risk behind them
C12_Witness ==
    /\ Aggregated
    /\ \E i \in DOMAIN fraud_rings :
          /\ i + 1 \in DOMAIN fraud_rings
          /\ fraud_rings[i].pattern = "cycle"
          /\ Len(fraud_rings[i].members) = 5
          /\ fraud_rings[i].risk_score = 95
          /\ fraud_rings[i + 1].pattern \in {"smurfing_fan_in", "smurfing_fan_out"}
          /\ fraud_rings[i + 1].risk_score = 95

(***************************************************************************)
(* C13.  The risk of a final ring.                                         *)
(***************************************************************************)
\* min(100, base + min(10, member_count)), in hundredths of the risk
FormulaRisk(pattern, member_count) ==
    LET base == CASE pattern = "cycle" -> 90
                  [] pattern = "smurfing_fan_in" -> 85
                  [] pattern = "smurfing_fan_out" -> 85
                  [] pattern = "layered" -> 80
        raw == base + (IF member_count > 10 THEN 10 ELSE member_count)
    IN IF raw > 100 THEN 100 ELSE raw

\* C13: every final ring has the risk min(100, base + min(10, members)) / 100
\* of its pattern and size, whatever provisional risk its detector had set,
\* and that risk lies in [0.0, 1.0].
C13_RiskFollowsFormula ==
    Aggregated =>
        \A i \in DOMAIN fraud_rings :
            /\ fraud_rings[i].risk_score
                  = FormulaRisk(fraud_rings[i].pattern,
                                Cardinality(Range(fraud_rings[i].members)))
            /\ 0 <= fraud_rings[i].risk_score
            /\ fraud_rings[i].risk_score <= 100

\* a cycle ring that came with a provisional risk other than its final one,
\* beside a ring of more than ten members
C13_Witness ==
    /\ Aggregated
    /\ \E c \in Range(cycle_rings) :
          /\ c.risk_score # None
          /\ \E r \in Range(fraud_rings) :
                Body(r) = Body(c) /\ r.risk_score # c.risk_score
    /\ \E r \in Range(fraud_rings) : Len(r.members) > 10

(***************************************************************************)
(* C14.  The layered detector against the paths of the upload.             *)
(***************************************************************************)
\* the simple projection, read off the rows of the upload
Arcs == {<<txs[i].sender_id, txs[i].receiver_id>> : i \in DOMAIN txs}

\* the simple directed paths that extend `path` by exactly `more` arcs
RECURSIVE PathsFrom(_, _)
PathsFrom(path, more) ==
    IF more = 0 THEN {path}
    ELSE UNION {PathsFrom(Append(path, a[2]), more - 1) :
                   a \in {x \in Arcs : x[1] = path[Len(path)] /\ x[2] \notin Range(path)}}

\* the simple directed paths of k edges
SimplePaths(k) == UNION {PathsFrom(<<v>>, k) : v \in Accounts(txs)}

\* the intermediate predicate: 2 or 3 transactions in and out, not a merchant
IsConduit(a) ==
    /\ 2 <= TotalTransactions(a)
    /\ TotalTransactions(a) <= 3
    /\ ~(TotalTransactions(a) > 100)

ShellPaths ==
    {p \in SimplePaths(3) \cup SimplePaths(4) \cup SimplePaths(5) :
        \A i \in 2..(Len(p) - 1) : IsConduit(p[i])}

LayeredReturned == pc = "aggregate"

\* C14: the member sets of the layered rings are exactly the node sets of the
\* simple paths of 3, 4 or 5 edges whose intermediate nodes all have 2 or 3
\* transactions and are no merchants; each set is emitted once, with its
\* members sorted, and the rings stand in ascending order of their members.
C14_LayeredSoundAndComplete ==
    LayeredReturned =>
        /\ {Range(r.members) : r \in Range(layered_rings)}
              = {Range(p) : p \in ShellPaths}
        /\ \A i, j \in DOMAIN layered_rings :
              i < j => LexLess(layered_rings[i].members, layered_rings[j].members)
        /\ \A r \in Range(layered_rings) :
              /\ r.pattern = "layered"
              /\ r.members = SortedSeq(Range(r.members))
              /\ Len(r.members) \in 4..6

\* an upload with a path of six edges: its shorter stretches are rings, the
\* path itself, with seven nodes, is not
C14_Witness ==
    /\ LayeredReturned
    /\ SimplePaths(6) # {}
    /\ Len(layered_rings) >= 3
    /\ \A r \in Range(layered_rings) : Len(r.members) <= 6

(***************************************************************************)
(* C15.  Fan-in against the windows of the upload.                         *)
(***************************************************************************)
SmurfingReturned == pc = "layered"

\* the senders of the rows to r that lie at most 72 hours after row i
SendersWithin(r, i) ==
    {txs[j].sender_id :
        j \in {k \in DOMAIN txs :
                  /\ txs[k].receiver_id = r
                  /\ Instant(txs[k].timestamp) >= Instant(txs[i].timestamp)
                  /\ Instant(txs[k].timestamp) - Instant(txs[i].timestamp)
                        <= 72 * MINUTES_PER_HOUR}}

\* some set of rows to r, at most 72 hours from its earliest to its latest
\* row, has ten distinct senders
HasFanInWindow(r) ==
    \E i \in DOMAIN txs :
        txs[i].receiver_id = r /\ Cardinality(SendersWithin(r, i)) >= 10

FanInHubs ==
    {r \in Accounts(txs) : ~(TotalTransactions(r) > 100) /\ HasFanInWindow(r)}

FanInRings == SelectSeq(smurfing_rings, LAMBDA r : r.pattern = "smurfing_fan_in")

\* C15, as stated: detect_fan_in emits one smurfing_fan_in ring for each
\* non-merchant receiver that has, among its incoming transactions, a window
\* of at most 72 hours with at least 10 distinct senders, and for no other
\* receiver (the rings come in ascending order of their receivers).
C15_AsStated ==
    SmurfingReturned =>
        /\ Len(FanInRings) = Cardinality(FanInHubs)
        /\ \A k \in DOMAIN FanInRings :
              k <= Cardinality(FanInHubs)
                  => SortedSeq(FanInHubs)[k] \in Range(FanInRings[k].members)

(***************************************************************************)
(* C16.  The order of the adjacency lists.                                 *)
(***************************************************************************)
MapsBuilt == pc \in {"cycles", "smurfing", "layered", "aggregate", "score", "report", "done"}

\* the place in the uploaded list of the transaction an adjacency entry carries
PlaceInInput(entry) ==
    CHOOSE i \in DOMAIN txs : txs[i].transaction_id = entry.transaction_id

\* the entries stand in ascending order of their instants, and entries with
\* the same timestamp stand in the order of the input
IsChronological(list) ==
    \A i, j \in DOMAIN list :
        i < j =>
            /\ Instant(ParseTs(list[i].timestamp)) <= Instant(ParseTs(list[j].timestamp))
            /\ list[i].timestamp = list[j].timestamp
                  => PlaceInInput(list[i]) < PlaceInInput(list[j])

\* C16, as stated: every outgoing and every incoming list is in ascending
\* chronological order, and entries with equal timestamps keep the relative
\* order their transactions have in the input list.
C16_AsStated ==
    MapsBuilt =>
        /\ \A a \in DOMAIN outgoing_map : IsChronological(outgoing_map[a])
        /\ \A a \in DOMAIN incoming_map : IsChronological(incoming_map[a])

(***************************************************************************)
(* C17.  The same transaction list analysed twice.                         *)
(***************************************************************************)
\* the report without the elapsed time of its run
Findings(rep) ==
    [total_accounts |-> rep.summary.total_accounts,
     total_transactions |-> rep.summary.total_transactions,
     fraud_rings_detected |-> rep.summary.fraud_rings_detected,
     suspicious_accounts_count |-> rep.summary.suspicious_accounts_count,
     ml_model_active |-> rep.summary.ml_model_active,
     fraud_rings |-> rep.fraud_rings,
     suspicious_accounts |-> rep.suspicious_accounts]

SameListAgain ==
    /\ Answered
    /\ prev # <<>>
    /\ prev[1].txs = txs
    /\ prev[1].ml = ml

\* C17, as stated: a second run on the same transaction list, with the
\* detectors run one after the other and merged in the order cycle, smurfing,
\* layered, gives the report of the first run (the elapsed time set aside).
C17_AsStated ==
    SameListAgain => Findings(report[1]) = Findings(prev[1].report)

(***************************************************************************)
(* C18.  What the detectors, the aggregator and the scorer leave alone.    *)
(***************************************************************************)
\* C18: the steps cycle_detector, smurfing_detector, detect_layered_networks,
\* aggregate_fraud_rings and compute_suspicion_scores leave G and the two
\* adjacency maps as they are, and the aggregator and the scorer leave the
\* rings they were handed as they are.
C18_InputsLeftUnchanged ==
    [][/\ pc \in {"cycles", "smurfing", "layered", "aggregate", "score"}
          => /\ G' = G
             /\ outgoing_map' = outgoing_map
             /\ incoming_map' = incoming_map
       /\ pc \in {"aggregate", "score"}
          => /\ cycle_rings' = cycle_rings
             /\ smurfing_rings' = smurfing_rings
             /\ layered_rings' = layered_rings
       /\ pc = "score" => fraud_rings' = fraud_rings]_vars

\* after the five steps: rings of all three detectors, the graph still the
\* one built from the upload, and the detectors' rings still with their own
\* identifiers and provisional risks while the final rings have new ones
C18_Witness ==
    /\ Scored
    /\ G = build_transaction_graph(txs)
    /\ cycle_rings # <<>>
    /\ smurfing_rings # <<>>
    /\ layered_rings # <<>>
    /\ \A r \in Range(smurfing_rings) :
          r.ring_id.prefix = "RING_SM_" /\ r.risk_score = None
    /\ \A r \in Range(layered_rings) :
          r.ring_id.prefix = "RING_LY_" /\ r.risk_score = None
    /\ \E c \in Range(cycle_rings) :
          \E r \in Range(fraud_rings) : Body(r) = Body(c) /\ r.risk_score # c.risk_score

(***************************************************************************)
(* C19.  involved_rings of an emitted account.                             *)
(***************************************************************************)
\* "RING_007" < "RING_012" as strings: the identifiers share the prefix and
\* their digit strings are compared character by character
IdBefore(x, y) == x.prefix = y.prefix /\ LexLess(x.digits, y.digits)

FinalIdsOf(a) ==
    {fraud_rings[k].ring_id :
        k \in {j \in DOMAIN fraud_rings : a \in Range(fraud_rings[j].members)}}

\* C19: for every emitted account, involved_rings is strictly ascending,
\* holds exactly the identifiers of the final rings the account is a member
\* of, and every identifier in it is the ring_id of a final ring.
C19_InvolvedRingsExact ==
    Scored =>
        \A i \in DOMAIN suspicious_accounts :
            LET acct == suspicious_accounts[i]
                ir == acct.involved_rings
            IN /\ \A j \in 1..(Len(ir) - 1) : IdBefore(ir[j], ir[j + 1])
               /\ Range(ir) = FinalIdsOf(acct.account_id)
               /\ \A id \in Range(ir) :
                     \E k \in DOMAIN fraud_rings : fraud_rings[k].ring_id = id

\* an account in several final rings, beside a ring it is not in
C19_Witness ==
    /\ Scored
    /\ \E i \in DOMAIN suspicious_accounts :
          /\ Len(suspicious_accounts[i].involved_rings) >= 3
          /\ \E k \in DOMAIN fraud_rings :
                suspicious_accounts[i].account_id \notin Range(fraud_rings[k].members)

(***************************************************************************)
(* C20.  Which accounts are emitted.                                       *)
(***************************************************************************)
\* the accounts that are members of at least one final ring
InSomeFinalRing == UNION {Range(fraud_rings[k].members) : k \in DOMAIN fraud_rings}

\* list names exactly the accounts of InSomeFinalRing, each of them once
EmitsExactlyRingMembers(list) ==
    /\ EmittedIds(list) = InSomeFinalRing
    /\ Len(list) = Cardinality(InSomeFinalRing)
    /\ fraud_rings = <<>> => list = <<>>

RingsOfPattern(a, pattern) ==
    Cardinality({k \in DOMAIN fraud_rings :
                    /\ fraud_rings[k].pattern = pattern
                    /\ a \in Range(fraud_rings[k].members)})

\* C21: apply_ring_scores gives a score to the members of the rings and to
\* nobody else, and the score of an account is 40 for every cycle ring it is
\* in, plus 30 for every fan-in ring, 30 for every fan-out ring and 25 for
\* every layered ring; one cycle ring and one fan-in ring make 70, and k
\* rings of one pattern make k times its base.
C21_PatternBaseIsSummed ==
    Aggregated =>
        LET scores == apply_ring_scores(fraud_rings)
        IN /\ DOMAIN scores = InSomeFinalRing
           /\ \A a \in DOMAIN scores :
                 LET c == RingsOfPattern(a, "cycle")
                     i == RingsOfPattern(a, "smurfing_fan_in")
                     o == RingsOfPattern(a, "smurfing_fan_out")
                     l == RingsOfPattern(a, "layered")
                 IN /\ scores[a] = 40 * c + 30 * i + 30 * o + 25 * l
                    /\ (c = 1 /\ i = 1 /\ o = 0 /\ l = 0) => scores[a] = 70
                    /\ (i = 0 /\ o = 0 /\ l = 0) => scores[a] = c * 40
                    /\ (c = 0 /\ i = 0 /\ o = 0) => scores[a] = l * 25

\* an account in one cycle ring and one fan-in ring only, beside accounts
\* in one ring
C21_Witness ==
    /\ Aggregated
    /\ \E a \in InSomeFinalRing :
          /\ RingsOfPattern(a, "cycle") = 1
          /\ RingsOfPattern(a, "smurfing_fan_in") = 1
          /\ RingsOfPattern(a, "smurfing_fan_out") = 0
          /\ RingsOfPattern(a, "layered") = 0
          /\ apply_ring_scores(fraud_rings)[a] = 70
    /\ \E b \in InSomeFinalRing : apply_ring_scores(fraud_rings)[b] = 30

(***************************************************************************)
(* C22.  max_tx_per_hour and the velocity bonus.                           *)
(***************************************************************************)
\* the transactions incident to account a: row i as sent by a, row i as
\* received by a (a row from a to a is both)
Incident(a) ==
    {<<i, "sent">> : i \in {j \in DOMAIN txs : txs[j].sender_id = a}}
    \cup {<<i, "received">> : i \in {j \in DOMAIN txs : txs[j].receiver_id = a}}

InstantOf(p) == Instant(txs[p[1]].timestamp)

\* the most incident transactions of a in a window of at most 60 minutes
\* from its first to its last transaction
BusiestHour(a) ==
    Max({0} \cup {Cardinality({q \in Incident(a) :
                                  /\ InstantOf(q) >= InstantOf(p)
                                  /\ InstantOf(q) - InstantOf(p) <= 60})
                  : p \in Incident(a)})

BonusOf(rate) == IF rate >= 11 THEN 20 ELSE IF rate >= 6 THEN 10 ELSE 0

\* C22: max_tx_per_hour of every node is the largest number of its incident
\* transactions within 60 minutes from first to last; the velocity bonus adds
\* 20 above 10 per hour, 10 above 5 per hour and nothing otherwise (never
\* 30), and only ring members have a score the bonus is added to.
C22_VelocityBonus ==
    Scored =>
        LET metrics == compute_transaction_metrics(G)
            base == apply_ring_scores(fraud_rings)
            with_bonus == apply_velocity_bonus(base, metrics)
        IN /\ DOMAIN metrics = Accounts(txs)
           /\ \A a \in Accounts(txs) : metrics[a].max_tx_per_hour = BusiestHour(a)
           /\ DOMAIN with_bonus = InSomeFinalRing
           /\ \A a \in InSomeFinalRing : with_bonus[a] = base[a] + BonusOf(BusiestHour(a))

\* a ring member with five rows in exactly 60 minutes and no bonus, beside
\* ring members of a lower rate and accounts outside every ring with eleven
\* rows in one hour
C22_Witness ==
    /\ Scored
    /\ LET base == apply_ring_scores(fraud_rings)
           with_bonus == apply_velocity_bonus(base, compute_transaction_metrics(G))
       IN \E a \in InSomeFinalRing :
             /\ BusiestHour(a) = 5
             /\ \E p, q \in Incident(a) : InstantOf(q) - InstantOf(p) = 60
             /\ with_bonus[a] = base[a]
    /\ \E c \in Accounts(txs) \ InSomeFinalRing : BusiestHour(c) = 11

(***************************************************************************)
(* C23.  The rule-based score of a ring member.                            *)
(***************************************************************************)
PatternBase(a) ==
    40 * RingsOfPattern(a, "cycle") + 30 * RingsOfPattern(a, "smurfing_fan_in")
    + 30 * RingsOfPattern(a, "smurfing_fan_out") + 25 * RingsOfPattern(a, "layered")

MerchantByRule(a) == TotalTransactions(a) > 200 \/ ExceedsThriceMean(a)

\* the sum of all adjustments, before the clamp
Adjusted(a) ==
    PatternBase(a) + BonusOf(BusiestHour(a)) - (IF MerchantByRule(a) THEN 50 ELSE 0)

InScoreOrder(list) ==
    \A i, j \in DOMAIN list :
        i < j =>
            \/ list[i].suspicion_score > list[j].suspicion_score
            \/ /\ list[i].suspicion_score = list[j].suspicion_score
               /\ list[i].account_id < list[j].account_id

\* C24: the list build_final_account_list returns, and suspicious_accounts
\* of the report (there by the final score, blended with ML where the
\* predictor is used), are ordered by suspicion_score descending and, among
\* equal scores, by account_id ascending.
C24_AccountsInScoreOrder ==
    /\ Scored => InScoreOrder(suspicious_accounts)
    /\ (Answered /\ report # <<>>) => InScoreOrder(report[1].suspicious_accounts)

\* a report blended with ML in which the accounts stand in another order
\* than in the rule-based list, with equal and with different scores
C24_Witness ==
    /\ Answered
    /\ report # <<>>
    /\ ml # "none"
    /\ [i \in DOMAIN suspicious_accounts |-> suspicious_accounts[i].account_id]
          # [i \in DOMAIN report[1].suspicious_accounts |->
                report[1].suspicious_accounts[i].account_id]
    /\ \E i, j \in DOMAIN report[1].suspicious_accounts :
          /\ i < j
          /\ report[1].suspicious_accounts[i].suspicion_score
                = report[1].suspicious_accounts[j].suspicion_score
    /\ \E i, j \in DOMAIN report[1].suspicious_accounts :
          report[1].suspicious_accounts[i].suspicion_score
             > report[1].suspicious_accounts[j].suspicion_score

(***************************************************************************)
(* C25.  risk_level and associated_ring of a reported account.             *)
(***************************************************************************)
\* the identifier that stands first among the final rings of account a
FirstFinalId(a) ==
    CHOOSE id \in FinalIdsOf(a) : \A other \in FinalIdsOf(a) \ {id} : IdBefore(id, other)

\* C25: every account of the report has the risk_level HIGH iff its emitted
\* suspicion_score is at least 80, MEDIUM iff it is 50 to 79, LOW iff it is
\* below 50, and its associated_ring is the first element of the account's
\* sorted involved_rings.
C25_RiskLevelAndAssociatedRing ==
    (Answered /\ report # <<>>) =>
        \A i \in DOMAIN report[1].suspicious_accounts :
            LET e == report[1].suspicious_accounts[i]
                a == e.account_id
            IN /\ e.risk_level \in {"HIGH", "MEDIUM", "LOW"}
               /\ e.risk_level = "HIGH" <=> e.suspicion_score >= 80
               /\ e.risk_level = "MEDIUM" <=>
                     (50 <= e.suspicion_score /\ e.suspicion_score < 80)
               /\ e.risk_level = "LOW" <=> e.suspicion_score < 50
               /\ a \in EmittedIds(suspicious_accounts)
               /\ e.associated_ring = AccountOf(suspicious_accounts, a).involved_rings[1]
               /\ e.associated_ring = FirstFinalId(a)

\* a report with an account at exactly 80, a MEDIUM and a LOW account, and
\* an account of several rings
C25_Witness ==
    /\ Answered
    /\ report # <<>>
    /\ \E i \in DOMAIN report[1].suspicious_accounts :
          /\ report[1].suspicious_accounts[i].suspicion_score = 80
          /\ report[1].suspicious_accounts[i].risk_level = "HIGH"
    /\ \E i \in DOMAIN report[1].suspicious_accounts :
          report[1].suspicious_accounts[i].risk_level = "MEDIUM"
    /\ \E i \in DOMAIN report[1].suspicious_accounts :
          report[1].suspicious_accounts[i].risk_level = "LOW"
    /\ \E i \in DOMAIN suspicious_accounts :
          Len(suspicious_accounts[i].involved_rings) >= 2

(***************************************************************************)
(* C26.  A run without the ML predictor.                                   *)
(***************************************************************************)
\* C26: when is_available() is false the run still ends with a report, the
\* report's accounts are those of the rule-based list with the rule-based
\* scores, ml_model_active is false in the summary and no account entry has
\* a rule_score or ml_probability field.
C26_RuleOnlyWithoutPredictor ==
    (Answered /\ ml = "none") =>
        /\ report # <<>>
        /\ saved = report
        /\ report[1].summary.ml_model_active = FALSE
        /\ EmittedIds(report[1].suspicious_accounts) = EmittedIds(suspicious_accounts)
        /\ Len(report[1].suspicious_accounts) = Len(suspicious_accounts)
        /\ \A i \in DOMAIN report[1].suspicious_accounts :
              LET e == report[1].suspicious_accounts[i]
              IN /\ e.suspicion_score
                       = AccountOf(suspicious_accounts, e.account_id).suspicion_score
                 /\ DOMAIN e = {"account_id", "suspicion_score", "risk_level",
                                "associated_ring"}

\* a rule-only report with accounts whose scores a predictor would have changed
C26_Witness ==
    /\ Answered
    /\ ml = "none"
    /\ report # <<>>
    /\ report[1].suspicious_accounts # <<>>
    /\ run_pipeline_report(txs, G, fraud_rings, suspicious_accounts, "by_ring_size", 1)
          .suspicious_accounts
       # run_pipeline_report(txs, G, fraud_rings, suspicious_accounts, "none", 1)
            .suspicious_accounts

(***************************************************************************)
(* C27.  A request without transactions.                                   *)
(***************************************************************************)
\* C27: a request to analyze an empty transaction list is rejected before
\* the pipeline runs: no graph is built, no report is built, and the saved
\* report stays what it was.
C27_EmptyListRejected ==
    [][(pc = "upload" /\ txs = <<>> /\ pc' # "upload")
          => /\ pc' = "rejected"
             /\ G' = G
             /\ fraud_rings' = fraud_rings
             /\ report' = report
             /\ saved' = saved
             /\ runs' = runs]_vars

\* a rejected request for the empty list while the report of an earlier run
\* is still the saved one
C27_Witness ==
    /\ pc = "rejected"
    /\ txs = <<>>
    /\ runs = 1
    /\ saved # <<>>
    /\ saved[1].summary.total_transactions > 0

(***************************************************************************)
(* C28.  The window the fan-in and fan-out sweeps record.                  *)
(***************************************************************************)
\* the states of the sweep after each of the iterations lo..hi, from state st
RECURSIVE SweepTrace(_, _, _, _)
SweepTrace(parsed, lo, hi, st) ==
    IF lo > hi THEN <<>>
    ELSE IF lo = hi THEN <<SweepStep(parsed, lo, st)>>
    ELSE LET mid == (lo + hi) \div 2
             first == SweepTrace(parsed, lo, mid, st)
         IN first \o SweepTrace(parsed, mid + 1, hi, first[Len(first)])

\* the distinct counterparties of the rows at positions l..r
CounterpartiesIn(parsed, l, r) == {parsed[i][2] : i \in l..r}

\* the sweep over the list of one hub, seen from outside: after iteration
\* right the window is left..right, with 1 <= left <= right (positions count
\* from 1); the recorded window is the first one, in the order of the
\* iterations, with the largest number of distinct counterparties
FirstBestRecorded(parsed) ==
    LET trace == SweepTrace(parsed, 1, Len(parsed), SweepInit)
        distinct(r) == Cardinality(CounterpartiesIn(parsed, trace[r].left, r))
        most == Max({distinct(r) : r \in DOMAIN parsed})
        first == Min({r \in DOMAIN parsed : distinct(r) = most})
        final == SlidingWindow(parsed)
    IN /\ Len(trace) = Len(parsed)
       /\ \A r \in DOMAIN parsed : 1 <= trace[r].left /\ trace[r].left <= r
       /\ \A r \in DOMAIN parsed : Cardinality(DOMAIN trace[r].freq) = distinct(r)
       /\ final.best_unique = most
       /\ final.best_right = first
       /\ final.best_left = trace[first].left

\* the hubs of map whose list is swept, and those for which a ring is emitted
SweptHubs(map) ==
    {h \in DOMAIN map : ~is_merchant(h, incoming_map, outgoing_map)
                        /\ Len(map[h]) >= 10}

RingHubs(map, pattern) ==
    {h \in SweptHubs(map) : SlidingWindow(Parsed(map[h], pattern)).best_unique >= 10}

\* the members of the ring of hub h: h and the distinct counterparties of
\* the rows of the recorded window
RecordedMembers(map, pattern, h) ==
    LET parsed == Parsed(map[h], pattern)
        final == SlidingWindow(parsed)
    IN {h} \cup CounterpartiesIn(parsed, final.best_left, final.best_right)

FanRingsAreRecordedWindows(map, pattern) ==
    LET rings == SelectSeq(smurfing_rings, LAMBDA r : r.pattern = pattern)
        hubs == SortedSeq(RingHubs(map, pattern))
    IN /\ Len(rings) = Len(hubs)
       /\ \A k \in DOMAIN rings :
             /\ Range(rings[k].members) = RecordedMembers(map, pattern, hubs[k])
             /\ Len(rings[k].members) = Cardinality(RecordedMembers(map, pattern, hubs[k]))

\* C28: in detect_fan_in and detect_fan_out the window recorded for a hub is
\* the first window of the sweep, from left to right, that has the largest
\* number of distinct counterparties; the ring emitted for the hub has as
\* members the hub and the distinct counterparties of the rows inside that
\* window; and at every iteration left is a position of the list not after
\* right.
C28_FirstBestWindow ==
    Swept =>
        /\ \A h \in SweptHubs(incoming_map) :
              FirstBestRecorded(Parsed(incoming_map[h], "smurfing_fan_in"))
        /\ \A h \in SweptHubs(outgoing_map) :
              FirstBestRecorded(Parsed(outgoing_map[h], "smurfing_fan_out"))
        /\ FanRingsAreRecordedWindows(incoming_map, "smurfing_fan_in")
        /\ FanRingsAreRecordedWindows(outgoing_map, "smurfing_fan_out")

\* a fan-in ring whose hub has a later window with as many distinct senders
\* as the recorded one: the last row of the hub is outside the ring's window
C28_Witness ==
    /\ Swept
    /\ \E h \in RingHubs(incoming_map, "smurfing_fan_in") :
          LET parsed == Parsed(incoming_map[h], "smurfing_fan_in")
              trace == SweepTrace(parsed, 1, Len(parsed), SweepInit)
              final == SlidingWindow(parsed)
          IN /\ final.best_right < Len(parsed)
             /\ Cardinality(CounterpartiesIn(parsed, trace[Len(parsed)].left, Len(parsed)))
                   = final.best_unique
             /\ trace[Len(parsed)].left > 1
             /\ CounterpartiesIn(parsed, trace[Len(parsed)].left, Len(parsed))
                   # CounterpartiesIn(parsed, final.best_left, final.best_right)

(***************************************************************************)
(* C29.  Rings of the same pattern over the same members.                  *)
(***************************************************************************)
\* C29, as stated: no two rings of the list aggregate_fraud_rings returns
\* have the same pattern and the same set of members.
C29_AsStated ==
    Aggregated =>
        \A i, j \in DOMAIN fraud_rings :
            i < j =>
                \/ fraud_rings[i].pattern # fraud_rings[j].pattern
                \/ Range(fraud_rings[i].members) # Range(fraud_rings[j].members)

(***************************************************************************)
(* C30.  ml_model_active in the summary.                                   *)
(***************************************************************************)
\* C30, as stated: whenever is_available() returned true in the run, the
\* summary of the report has ml_model_active = true.
C30_AsStated ==
    (Answered /\ report # <<>> /\ ml # "none") =>
        report[1].summary.ml_model_active = TRUE

====
